---- MODULE Spec2Model ----
(***************************************************************************)
(* LibAleph string constructors (src/src/new.c) over the header layout and *)
(* macros of src/src/aleph.h.                                              *)
(*                                                                         *)
(* A `const char *` argument is a sequence of non-zero bytes (0..255); the *)
(* terminating zero byte is implicit at position Len(s)+1.  The null       *)
(* pointer of that type is the sentinel CNULL.  A pointer into a C string  *)
(* is a 1-based position, 0 being the null pointer.  An a_str handle is    *)
(* the index of its allocation in heap, 0 being NULL.  size_t is SizeBits   *)
(* wide.                                                                   *)
(***************************************************************************)
EXTENDS Integers, Sequences, FiniteSets, TLC

VARIABLES heap, call, ndebug, passthrough, min_size, thr
vars == <<heap, call, ndebug, passthrough, min_size, thr>>

\* what the build fixes: NDEBUG, A_NULL_PASSTHROUGH, A_MIN_STR_SIZE
build == <<ndebug, passthrough, min_size>>

(* ------------------------------ bounds -------------------------------- *)
SizeBits == 8
MaxStrings == 3
MaxBuilt == 1
MaxRepeat == 2
MaxLen == 3
MaxThreads == 2

(* ------------------------- program constants -------------------------- *)
A_MIN_STR_SIZE == 16
A_MIN_CP == 0
A_MAX_CP == 1114111

NULL == 0
CNULL == <<-1>>
HANG == -1

RECURSIVE Pow2(_)
Pow2(n) == IF n = 0 THEN 1 ELSE 2 * Pow2(n - 1)

SizeMod == Pow2(SizeBits)
SIZE_MAX == SizeMod - 1

\* sizeof (size_t) in bytes, and sizeof (struct a_header): len, size, mem
sizeof_size_t == (SizeBits + 7) \div 8
sizeof_a_header == 3 * sizeof_size_t

\* a variant that skips two of the three header fields
a_buff_short(b) == b + 2 * sizeof_size_t

\* a_buff(b): the buffer of the header at address b
a_buff(b) == b + sizeof_a_header

\* a_header(b): the header of the buffer at address b
a_header(b) == b - sizeof_a_header

\* address of the first block the allocator hands out
HeapStart == 8

(* ------------------------- scalar codec (4.B) ------------------------- *)
\* the 256-entry leading-byte table
a_next_char_size(b) ==
    IF b >= 194 /\ b <= 223 THEN 2
    ELSE IF b >= 224 /\ b <= 239 THEN 3
    ELSE IF b >= 240 /\ b <= 244 THEN 4
    ELSE 1

\* a_size_chr(c): table lookup on the byte converted to unsigned char
\* the value of a plain char holding byte b, where char is signed or not
PlainChar(b, signed) == IF signed /\ b >= 128 THEN b - 256 ELSE b

\* a variant that indexes the table with the char as it is
a_size_chr_index_plain(c) == c

\* (int)(unsigned char)c: the index a_size_chr uses into a_next_char_size
a_size_chr_index(c) == c % 256

a_size_chr(c) == a_next_char_size(a_size_chr_index(c))

\* byte at 1-based position i of the C string s, the terminator included
ByteAt(s, i) == IF i >= 1 /\ i <= Len(s) THEN s[i] ELSE 0

a_size_chr_cstr(s) == a_size_chr(ByteAt(s, 1))

\* (int)*(unsigned char*)(str): the index a_next_chr uses, the byte at str
a_next_chr_index(s, i) == ByteAt(s, i)

\* a_next_chr(str): position of the next code point
a_next_chr_plus1(s, i) == i + 1

a_next_chr(s, i) == i + a_next_char_size(a_next_chr_index(s, i))

strlen(s) == Len(s)

IsCont(b) == b >= 128 /\ b <= 191

\* length (1..4) of the well-formed UTF-8 sequence starting at position i of
\* s, or 0 when the bytes there are not one (overlong, surrogate, above
\* U+10FFFF, illegal lead byte, unexpected continuation, truncation)
SeqLenAt(s, i) ==
    LET b0 == ByteAt(s, i)
        b1 == ByteAt(s, i + 1)
        b2 == ByteAt(s, i + 2)
        b3 == ByteAt(s, i + 3)
    IN  IF b0 >= 1 /\ b0 <= 127 THEN 1
        ELSE IF b0 >= 194 /\ b0 <= 223
            THEN (IF IsCont(b1) THEN 2 ELSE 0)
        ELSE IF b0 = 224
            THEN (IF b1 >= 160 /\ b1 <= 191 /\ IsCont(b2) THEN 3 ELSE 0)
        ELSE IF b0 = 237
            THEN (IF b1 >= 128 /\ b1 <= 159 /\ IsCont(b2) THEN 3 ELSE 0)
        ELSE IF b0 >= 225 /\ b0 <= 239
            THEN (IF IsCont(b1) /\ IsCont(b2) THEN 3 ELSE 0)
        ELSE IF b0 = 240
            THEN (IF b1 >= 144 /\ b1 <= 191 /\ IsCont(b2) /\ IsCont(b3) THEN 4 ELSE 0)
        ELSE IF b0 = 244
            THEN (IF b1 >= 128 /\ b1 <= 143 /\ IsCont(b2) /\ IsCont(b3) THEN 4 ELSE 0)
        ELSE IF b0 >= 241 /\ b0 <= 243
            THEN (IF IsCont(b1) /\ IsCont(b2) /\ IsCont(b3) THEN 4 ELSE 0)
        ELSE 0

\* the validator's scan from position i through the positions lo..hi-1
\* (lo <= i), taken by halves: <<the position it stands at, whether it
\* stopped there on an invalid byte or on the end of s>>
RECURSIVE ValidateSpan(_, _, _, _)
ValidateSpan(s, i, lo, hi) ==
    IF i >= hi THEN <<i, FALSE>>
    ELSE IF hi - lo = 1
        THEN (IF i > Len(s) \/ SeqLenAt(s, i) = 0
              THEN <<i, TRUE>>
              ELSE <<i + SeqLenAt(s, i), FALSE>>)
    ELSE LET r == ValidateSpan(s, i, lo, (lo + hi) \div 2)
         IN  IF r[2] THEN r ELSE ValidateSpan(s, r[1], (lo + hi) \div 2, hi)

\* the position the scan from i stops at: the first byte that starts no
\* well-formed sequence, or the end of s
ValidateFrom(s, i) == ValidateSpan(s, i, i, Len(s) + 2)[1]

\* validate: pointer to the first invalid byte, or to the end of the string
a_is_valid_utf8(s) == ValidateFrom(s, 1)

\* the bytes of s are a valid UTF-8 sequence
ValidUtf8(s) == ValidateFrom(s, 1) = Len(s) + 1

\* the steps of a_next_chr from position i through the positions lo..hi-1
\* (lo <= i), taken by halves: <<the position reached, the steps made>>
RECURSIVE CountSpan(_, _, _, _)
CountSpan(s, i, lo, hi) ==
    IF i >= hi THEN <<i, 0>>
    ELSE IF hi - lo = 1 THEN <<a_next_chr(s, i), 1>>
    ELSE LET r == CountSpan(s, i, lo, (lo + hi) \div 2)
             q == CountSpan(s, r[1], (lo + hi) \div 2, hi)
         IN  <<q[1], r[2] + q[2]>>

\* the steps of a_next_chr from position i to the terminator of s
CountFrom(s, i) == CountSpan(s, i, i, Len(s) + 1)[2]

\* number of code points of the NUL-terminated string s: the steps of
\* a_next_chr from its start to its terminator (a step announced by the last
\* lead byte of a truncated string ends the walk)
a_len_cstr(s) == CountFrom(s, 1)

(* ------------------------------ macros -------------------------------- *)
\* assert(!a_is_valid_utf8(s)): passes when the returned pointer is null
A_ASSERT_UTF8(s) == a_is_valid_utf8(s) = NULL

A_ASSERT_CODEPOINT(cp) == A_MIN_CP <= cp /\ cp <= A_MAX_CP

\* chr & mask for a mask of high bits of a byte, chr an int in two's complement
BitAnd(chr, mask) == ((chr % 256) \div (256 - mask)) * (256 - mask)

\* a variant that tests the top bit alone
A_ASSERT_CODEPOINT_BOUNDARY_ascii(chr) == BitAnd(chr, 128) # 128

\* ((chr) & 0xC0) != 0x80
A_ASSERT_CODEPOINT_BOUNDARY(chr) == BitAnd(chr, 192) # 128

(* ---------------------------- constructors ---------------------------- *)
\* result of a call: how it ended, the handle returned, the heap afterwards
\* (oom: A_MALLOC was called and returned no storage)
Result(out, ret, H) == [out |-> out, ret |-> ret, heap |-> H, oom |-> FALSE]

RECURSIVE Grow(_, _)
Grow(size, l) ==
    IF ~(size < l) THEN size
    ELSE IF size = 0 THEN HANG
    ELSE Grow((size * 2) % SizeMod, l)

\* a variant without the ++l that makes room for the terminator
RawSize_noinc(l) == Grow(min_size % SizeMod, l % SizeMod)

\* a variant whose loop runs while size <= l
RawSize_le(l) == Grow(min_size % SizeMod, (l + 2) % SizeMod)

\* a variant that allocates exactly what is asked for above the minimum
RawSize_exact(l) ==
    IF (l + 1) % SizeMod > min_size THEN (l + 1) % SizeMod ELSE min_size

\* for (++l, size = A_MIN_STR_SIZE; size < l;) size <<= 1;
\* (min_size: the A_MIN_STR_SIZE the library was compiled with)
RawSize(l) == Grow(min_size % SizeMod, (l + 1) % SizeMod)

\* assert(e) of <assert.h>: aborts unless NDEBUG is defined
Aborts(e) == ~ndebug /\ ~e

PASSTHROUGH_OFF(condition) == FALSE

\* PASSTHROUGH_ON_FAIL(condition, val): returns val when the condition fails
\* and A_NULL_PASSTHROUGH is on
PASSTHROUGH_ON_FAIL(condition) == passthrough /\ ~condition

\* the string a handle designates
Str(H, h) == H[h]

\* a_size(s): the byte length recorded in the header of s
a_size(H, h) == Str(H, h).hdr.size

\* memcpy(buf + off, bs, Len(bs)) and buf[off] = b on the written prefix
MemWrite(buf, off, bs) ==
    LET n == IF Len(buf) > off + Len(bs) THEN Len(buf) ELSE off + Len(bs)
    IN  [k \in 1..n |-> IF k > off /\ k <= off + Len(bs) THEN bs[k - off] ELSE buf[k]]

\* the first n bytes of the array a C string lives in
FirstBytes(s, n) == [k \in 1..n |-> ByteAt(s, k)]

\* A_MALLOC(n): the address of a block of n bytes that overlaps no live block
\* (blocks are laid out one after the other)
A_MALLOC(H, n) ==
    IF H = <<>> THEN HeapStart
    ELSE H[Len(H)].at + sizeof_a_header + H[Len(H)].alloc

\* a variant that initialises what it allocates
a_new_size_raw_init(H, l, ok) ==
    LET size == RawSize(l)
        h == A_MALLOC(H, sizeof_a_header + size)
    IN  IF size = HANG THEN Result("hang", NULL, H)
        ELSE IF ~ok THEN [Result("ret", NULL, H) EXCEPT !.oom = TRUE]
        ELSE Result("ret", Len(H) + 1,
                    Append(H, [at |-> h, str |-> a_buff(h), alloc |-> size,
                               hdr |-> [len |-> 0, size |-> 0, mem |-> size],
                               buf |-> <<0>>]))

\* A_MALLOC(sizeof *h + size) gives size buffer bytes after the header, none
\* of them written; h->mem = size; the a_str returned is a_buff(h).
\* at: address of the block, str: the a_str handed out, alloc: its buffer bytes
a_new_size_raw(H, l, ok) ==
    LET size == RawSize(l)
        h == A_MALLOC(H, sizeof_a_header + size)
    IN  IF size = HANG THEN Result("hang", NULL, H)
        ELSE IF ~ok THEN [Result("ret", NULL, H) EXCEPT !.oom = TRUE]
        ELSE Result("ret", Len(H) + 1,
                    Append(H, [at |-> h, str |-> a_buff(h), alloc |-> size,
                               hdr |-> [mem |-> size], buf |-> <<>>]))

\* a variant that writes the header without testing the pointer
a_new_size_unchecked(H, l, ok) ==
    LET r == a_new_size_raw(H, l, ok)
    IN  IF r.out = "ret" /\ r.ret = NULL THEN [r EXCEPT !.out = "fault"]
        ELSE IF r.out = "ret"
        THEN [r EXCEPT !.heap[r.ret].buf = MemWrite(@, 0, <<0>>),
                       !.heap[r.ret].hdr = [len |-> 0, size |-> 0, mem |-> @.mem]]
        ELSE r

a_new_size(H, l, ok) ==
    LET r == a_new_size_raw(H, l, ok)
    IN  IF r.out = "ret" /\ r.ret # NULL
        THEN [r EXCEPT !.heap[r.ret].buf = MemWrite(@, 0, <<0>>),
                       !.heap[r.ret].hdr = [len |-> 0, size |-> 0, mem |-> @.mem]]
        ELSE r

a_new_len(H, s, l, ok) ==
    IF Aborts(s # CNULL) THEN Result("assert", NULL, H)
    ELSE IF PASSTHROUGH_ON_FAIL(s # CNULL) THEN Result("ret", NULL, H)
    ELSE LET r == a_new_size_raw(H, (l + 1) % SizeMod, ok)
         IN  IF r.out = "ret" /\ r.ret # NULL
             THEN IF s = CNULL
                  THEN Result("fault", NULL, r.heap)
                  ELSE [r EXCEPT
                          !.heap[r.ret].buf =
                              MemWrite(MemWrite(@, 0, FirstBytes(s, l)), l, <<0>>),
                          !.heap[r.ret].hdr =
                              [len |-> a_len_cstr(s), size |-> l, mem |-> @.mem]]
             ELSE r

\* a variant with the branches of the length conditional exchanged
a_new_swapped(H, s, ok) ==
    LET arg == IF s # CNULL THEN s ELSE <<>>
    IN  IF Aborts(A_ASSERT_UTF8(arg)) THEN Result("assert", NULL, H)
        ELSE a_new_len(H, arg, IF s # CNULL THEN 0 ELSE strlen(arg), ok)

a_new(H, s, ok) ==
    LET arg == IF s # CNULL THEN s ELSE <<>>
    IN  IF Aborts(A_ASSERT_UTF8(arg)) THEN Result("assert", NULL, H)
        ELSE a_new_len(H, arg, IF s # CNULL THEN strlen(s) ELSE 0, ok)

\* a variant whose memcpy leaves out the terminator
a_new_dup_alias(H, s, ok) ==
    IF Aborts(s # NULL) THEN Result("assert", NULL, H)
    ELSE IF PASSTHROUGH_ON_FAIL(s # NULL) THEN Result("ret", NULL, H)
    ELSE IF s = NULL THEN Result("fault", NULL, H)
    ELSE Result("ret", s, H)

a_new_dup_buffer(H, s, ok) ==
    IF Aborts(s # NULL) THEN Result("assert", NULL, H)
    ELSE IF PASSTHROUGH_ON_FAIL(s # NULL) THEN Result("ret", NULL, H)
    ELSE IF s = NULL THEN Result("fault", NULL, H)
    ELSE LET r == a_new_size_raw(H, (a_size(H, s) + 1) % SizeMod, ok)
         IN  IF r.out = "ret" /\ r.ret # NULL
             THEN [r EXCEPT
                     !.heap[r.ret].hdr = [len |-> 0, size |-> a_size(H, s), mem |-> @.mem],
                     !.heap[r.ret].buf =
                         MemWrite(@, 0, SubSeq(Str(H, s).buf, 1, a_size(H, s) + 1))]
             ELSE r

a_new_dup_short(H, s, ok) ==
    IF Aborts(s # NULL) THEN Result("assert", NULL, H)
    ELSE IF PASSTHROUGH_ON_FAIL(s # NULL) THEN Result("ret", NULL, H)
    ELSE IF s = NULL THEN Result("fault", NULL, H)
    ELSE LET r == a_new_size_raw(H, (a_size(H, s) + 1) % SizeMod, ok)
         IN  IF r.out = "ret" /\ r.ret # NULL
             THEN [r EXCEPT
                     !.heap[r.ret].hdr = Str(H, s).hdr,
                     !.heap[r.ret].buf =
                         MemWrite(@, 0, SubSeq(Str(H, s).buf, 1, a_size(H, s)))]
             ELSE r

a_new_dup(H, s, ok) ==
    IF Aborts(s # NULL) THEN Result("assert", NULL, H)
    ELSE IF PASSTHROUGH_ON_FAIL(s # NULL) THEN Result("ret", NULL, H)
    ELSE IF s = NULL THEN Result("fault", NULL, H)
    ELSE LET r == a_new_size_raw(H, (a_size(H, s) + 1) % SizeMod, ok)
         IN  IF r.out = "ret" /\ r.ret # NULL
             THEN [r EXCEPT
                     !.heap[r.ret].hdr = Str(H, s).hdr,
                     !.heap[r.ret].buf =
                         MemWrite(@, 0, SubSeq(Str(H, s).buf, 1, a_size(H, s) + 1))]
             ELSE r

RECURSIVE Repeated(_, _)
Repeated(bs, n) == IF n = 0 THEN <<>> ELSE bs \o Repeated(bs, n - 1)

\* number of passes of: for (i = 0; i < l; i += size)
Passes(l, size) == IF l = 0 THEN 0 ELSE (l + size - 1) \div size

a_new_chr_internal_bytes(H, chr, size, repeat, ok) ==
    LET l == (size * repeat) % SizeMod
        r == a_new_size_raw(H, (l + 1) % SizeMod, ok)
    IN  IF r.out = "ret" /\ r.ret # NULL
        THEN [r EXCEPT
                !.heap[r.ret].buf =
                    MemWrite(MemWrite(@, 0, Repeated(FirstBytes(chr, size), Passes(l, size))),
                             l, <<0>>),
                !.heap[r.ret].hdr = [len |-> l, size |-> l, mem |-> @.mem]]
        ELSE r

a_new_chr_internal(H, chr, size, repeat, ok) ==
    LET l == (size * repeat) % SizeMod
        r == a_new_size_raw(H, (l + 1) % SizeMod, ok)
    IN  IF r.out = "ret" /\ r.ret # NULL
        THEN [r EXCEPT
                !.heap[r.ret].buf =
                    MemWrite(MemWrite(@, 0, Repeated(FirstBytes(chr, size), Passes(l, size))),
                             l, <<0>>),
                !.heap[r.ret].hdr = [len |-> repeat, size |-> l, mem |-> @.mem]]
        ELSE r

\* shortest-form UTF-8 of a code point (bit pattern of 1..4 bytes)
Utf8Bytes(cp) ==
    IF cp < 128 THEN <<cp>>
    ELSE IF cp < 2048 THEN <<192 + (cp \div 64), 128 + (cp % 64)>>
    ELSE IF cp < 65536
        THEN <<224 + (cp \div 4096), 128 + ((cp \div 64) % 64), 128 + (cp % 64)>>
    ELSE <<240 + ((cp \div 262144) % 8), 128 + ((cp \div 4096) % 64),
           128 + ((cp \div 64) % 64), 128 + (cp % 64)>>

IsScalar(cp) == cp >= 0 /\ cp <= A_MAX_CP /\ ~(cp >= 55296 /\ cp <= 57343)

\* a_to_utf8_size(cp, b, &size): the bytes left in b (size = their number).
\* The encoder is specified for scalar values only; for any other argument
\* what it leaves in b is unspecified: the bit pattern, U+FFFD, or nothing.
a_to_utf8_size(cp) ==
    IF IsScalar(cp) THEN {Utf8Bytes(cp)}
    ELSE {<<239, 191, 189>>, <<>>} \cup (IF cp >= 0 THEN {Utf8Bytes(cp)} ELSE {})

\* b: what a_to_utf8_size left in the local buffer
a_new_cp(H, cp, b, repeat, ok) ==
    IF Aborts(cp # 0) THEN Result("assert", NULL, H)
    ELSE IF Aborts(A_ASSERT_CODEPOINT(cp)) THEN Result("assert", NULL, H)
    ELSE a_new_chr_internal(H, b, Len(b), repeat, ok)

a_new_chr(H, chr, repeat, ok) ==
    IF Aborts(ByteAt(chr, 1) # 0) THEN Result("assert", NULL, H)
    ELSE a_new_chr_internal(H, chr, a_size_chr_cstr(chr), repeat, ok)

(* ------------------------------ inputs -------------------------------- *)
\* bytes standing for each class of UTF-8 code unit: ASCII, a 2-byte lead,
\* two continuation bytes (A9 above and 80 below the E0/ED/F0 thresholds),
\* the 3-byte lead ED, the illegal lead C0 and the 4-byte lead F0
ByteAlphabet == {65, 195, 169, 128, 237, 192, 240}

StringsUpTo(n) == UNION {[1..k -> ByteAlphabet] : k \in 0..n}

\* "Caf\'e" with U+00E9 as C3 A9
Cafe == <<67, 97, 102, 195, 169>>

\* the short C strings: every byte string of the alphabet up to MaxLen
ShortCStrings == StringsUpTo(MaxLen) \cup {Cafe}

\* the longest C string whose array, terminator included, a size_t can size
Long == [k \in 1..(SIZE_MAX - 1) |-> 65]

\* C strings of the one-call specification
AllCStrings == ShortCStrings \cup {Long}

\* C string arguments of the heap specification, the null pointer included
CStrings == {CNULL, <<>>, <<65>>, <<195, 169>>, <<195>>}

\* code point arguments: below and above the codespace, zero, one scalar of
\* each encoded length, a surrogate
Codepoints == {-1, 0, 65, 233, 8364, 128512, 55296, 1114112}

\* repeat counts: small ones, the ones that fill the minimum buffer, and
\* half of size_t, which wraps when multiplied by an even encoded length
Repeats == (0..MaxRepeat) \cup {A_MIN_STR_SIZE - 2, A_MIN_STR_SIZE - 1, SizeMod \div 2}

\* size arguments around the minimum buffer, half of size_t and all of it
SizeArgs == {0, A_MIN_STR_SIZE - 2, A_MIN_STR_SIZE - 1, A_MIN_STR_SIZE,
             SizeMod \div 2 - 1, SizeMod \div 2, SIZE_MAX - 1, SIZE_MAX}

(* ------------------------------- state -------------------------------- *)
\* call: the last constructor call, its arguments and how it ended
\* (steps: code points walked so far, idx: the table index last used)
NoCall == [op |-> "none", s |-> <<>>, n |-> 0, cp |-> 0, h |-> NULL,
           out |-> "ret", ret |-> NULL, oom |-> FALSE, steps |-> 0, idx |-> 0]

\* thr: the threads that run constructors side by side, each with the call
\* it is in (op), the place it has reached (pc) and its locals: the source s,
\* the size l it asks for, its new block dup, what it returned (ret, oom)
Threads == 1..MaxThreads

Idle == [pc |-> "idle", op |-> "none", s |-> NULL, l |-> 0, dup |-> NULL,
         ret |-> NULL, oom |-> FALSE]

\* the program runs until an assertion aborts it, it faults or it hangs
Running == call.out = "ret"

\* strings are built from arguments while fewer than MaxBuilt are alive, and
\* duplicated while fewer than MaxStrings are
MayBuild == Running /\ Len(heap) < MaxBuilt
MayDup == Running /\ Len(heap) < MaxStrings
\* a program that makes one call
FirstCall == call.op = "none"

Init ==
    /\ heap = <<>>
    /\ call = NoCall
    /\ ndebug \in BOOLEAN
    /\ passthrough \in BOOLEAN
    /\ min_size = A_MIN_STR_SIZE
    /\ thr = [t \in Threads |-> Idle]

\* assertions on or off, A_NULL_PASSTHROUGH at its default
InitCodec ==
    /\ heap = <<>>
    /\ call = NoCall
    /\ ndebug \in BOOLEAN
    /\ passthrough = FALSE
    /\ min_size = A_MIN_STR_SIZE
    /\ thr = [t \in Threads |-> Idle]

\* values a user may give A_MIN_STR_SIZE: none, one, the default, its
\* double, and sizes below and above the default that are no powers of two
MinSizes == {0, 1, A_MIN_STR_SIZE - 4, A_MIN_STR_SIZE, A_MIN_STR_SIZE + 8,
             2 * A_MIN_STR_SIZE}

\* a library compiled with its own A_MIN_STR_SIZE
InitMin ==
    /\ heap = <<>>
    /\ call = NoCall
    /\ ndebug \in BOOLEAN
    /\ passthrough = FALSE
    /\ min_size \in MinSizes
    /\ thr = [t \in Threads |-> Idle]

\* the call wrote bytes behind the block the allocator gave it
Overflows(r) ==
    /\ r.out = "ret" /\ r.ret # NULL
    /\ Len(r.heap[r.ret].buf) > r.heap[r.ret].alloc

\* (a call the allocator failed is recorded by its name and its handle alone;
\* a call that wrote behind its block has undefined behaviour: it may return
\* as if nothing happened or fault)
Do(op, s, n, cp, h, r) ==
    /\ heap' = r.heap
    /\ \E crash \in (IF ~r.oom /\ Overflows(r) THEN BOOLEAN ELSE {FALSE}) :
          call' = IF r.oom
                  THEN [NoCall EXCEPT !.op = op, !.h = h, !.out = r.out, !.ret = r.ret,
                                      !.oom = TRUE]
                  ELSE [NoCall EXCEPT !.op = op, !.s = s, !.n = n, !.cp = cp, !.h = h,
                                      !.out = IF crash THEN "fault" ELSE r.out,
                                      !.ret = r.ret]
    /\ UNCHANGED <<build, thr>>

NewSizeRaw(g) ==
    /\ g
    /\ \E l \in SizeArgs, ok \in BOOLEAN :
          Do("a_new_size_raw", <<>>, l, 0, NULL, a_new_size_raw(heap, l, ok))

NewSize(g) ==
    /\ g
    /\ \E l \in SizeArgs, ok \in BOOLEAN :
          Do("a_new_size", <<>>, l, 0, NULL, a_new_size(heap, l, ok))

New(g, S) ==
    /\ g
    /\ \E s \in S, ok \in BOOLEAN :
          Do("a_new", s, 0, 0, NULL, a_new(heap, s, ok))

\* str must not be shorter than size
NewLen(g, S) ==
    /\ g
    /\ \E s \in S, ok \in BOOLEAN :
          \E l \in 0..(IF s = CNULL THEN 0 ELSE strlen(s)) :
             Do("a_new_len", s, l, 0, NULL, a_new_len(heap, s, l, ok))

\* str is NULL or an Aleph string, its header written
NewDup(g) ==
    /\ g
    /\ \E s \in 0..Len(heap), ok \in BOOLEAN :
          /\ s # NULL => "size" \in DOMAIN heap[s].hdr
          /\ Do("a_new_dup", <<>>, 0, 0, s, a_new_dup(heap, s, ok))

NewCp(g) ==
    /\ g
    /\ \E cp \in Codepoints, repeat \in Repeats, ok \in BOOLEAN :
          \E b \in a_to_utf8_size(cp) :
             Do("a_new_cp", <<>>, repeat, cp, NULL, a_new_cp(heap, cp, b, repeat, ok))

\* chr points to an array holding the code units its first byte announces
NewChr(g, S) ==
    /\ g
    /\ \E chr \in S \ {CNULL}, repeat \in Repeats, ok \in BOOLEAN :
          /\ a_size_chr_cstr(chr) <= Len(chr) + 1
          /\ Do("a_new_chr", chr, repeat, 0, NULL, a_new_chr(heap, chr, repeat, ok))

Next ==
    \/ NewSizeRaw(MayBuild)
    \/ NewSize(MayBuild)
    \/ New(MayBuild, CStrings)
    \/ NewLen(MayBuild, CStrings)
    \/ NewCp(MayBuild)
    \/ NewChr(MayBuild, CStrings)
    \/ NewDup(MayDup)

Spec == Init /\ [][Next]_vars

\* one constructor call on any byte string of the alphabet
NextCodec ==
    \/ New(FirstCall, AllCStrings)
    \/ NewLen(FirstCall, AllCStrings)
    \/ NewCp(FirstCall)
    \/ NewChr(FirstCall, AllCStrings)

SpecCodec == InitCodec /\ [][NextCodec]_vars

\* one call of a buffer constructor, for every A_MIN_STR_SIZE
NextMin ==
    \/ NewSizeRaw(FirstCall)
    \/ NewSize(FirstCall)

SpecMin == InitMin /\ [][NextMin]_vars

(* ------------------------------ threads ------------------------------- *)
\* the string the threads share: the one the program built before it
\* started them, which no thread mutates
Shared == 1

HasShared ==
    /\ Running
    /\ Len(heap) >= Shared
    /\ "size" \in DOMAIN heap[Shared].hdr

\* a variant with the arguments of memcpy exchanged
MemcpyHeader_swapped(H, dst, src) == [H EXCEPT ![src].hdr = H[dst].hdr]

\* memcpy(a_header(dup), a_header(s), sizeof (struct a_header) + ...): the
\* header part
MemcpyHeader(H, dst, src) == [H EXCEPT ![dst].hdr = H[src].hdr]

\* ... + a_size(s) + 1): the buffer part, terminator included
MemcpyBuffer(H, dst, src) ==
    [H EXCEPT ![dst].buf = MemWrite(@, 0, SubSeq(H[src].buf, 1, a_size(H, src) + 1))]

\* a_new_dup(s), s not NULL: a_size(s) + 1 is evaluated
DupSize(t) ==
    /\ HasShared
    /\ thr[t].pc = "idle"
    /\ thr' = [thr EXCEPT ![t] = [Idle EXCEPT !.pc = "alloc", !.op = "a_new_dup",
                                              !.s = Shared,
                                              !.l = (a_size(heap, Shared) + 1) % SizeMod]]
    /\ UNCHANGED <<heap, call, build>>

\* dup = a_new_size_raw(...): the allocator is atomic
DupAlloc(t) ==
    /\ thr[t].pc = "alloc" /\ thr[t].op = "a_new_dup"
    /\ \E ok \in BOOLEAN :
          LET r == a_new_size_raw(heap, thr[t].l, ok)
          IN  /\ r.out = "ret"
              /\ heap' = r.heap
              /\ thr' = [thr EXCEPT ![t] =
                            IF r.ret = NULL
                            THEN [@ EXCEPT !.pc = "done", !.ret = NULL, !.oom = TRUE]
                            ELSE [@ EXCEPT !.pc = "header", !.dup = r.ret]]
    /\ UNCHANGED <<call, build>>

\* memcpy copies the header of s ...
DupCopyHeader(t) ==
    /\ thr[t].pc = "header"
    /\ heap' = MemcpyHeader(heap, thr[t].dup, thr[t].s)
    /\ thr' = [thr EXCEPT ![t].pc = "buffer"]
    /\ UNCHANGED <<call, build>>

\* ... and its bytes; return dup
DupCopyBuffer(t) ==
    /\ thr[t].pc = "buffer"
    /\ heap' = MemcpyBuffer(heap, thr[t].dup, thr[t].s)
    /\ thr' = [thr EXCEPT ![t].pc = "done", ![t].ret = thr[t].dup]
    /\ UNCHANGED <<call, build>>

\* a_new_size(l): s = a_new_size_raw(l)
SizeAlloc(t) ==
    /\ HasShared
    /\ thr[t].pc = "idle"
    /\ \E l \in {0, A_MIN_STR_SIZE}, ok \in BOOLEAN :
          LET r == a_new_size_raw(heap, l, ok)
          IN  /\ r.out = "ret"
              /\ heap' = r.heap
              /\ thr' = [thr EXCEPT ![t] =
                            IF r.ret = NULL
                            THEN [Idle EXCEPT !.pc = "done", !.op = "a_new_size",
                                              !.l = l, !.oom = TRUE]
                            ELSE [Idle EXCEPT !.pc = "init", !.op = "a_new_size",
                                              !.l = l, !.dup = r.ret]]
    /\ UNCHANGED <<call, build>>

\* *s = '\0'; h->len = 0; h->size = 0; return s
SizeInit(t) ==
    /\ thr[t].pc = "init"
    /\ heap' = [heap EXCEPT ![thr[t].dup].buf = MemWrite(@, 0, <<0>>),
                            ![thr[t].dup].hdr = [len |-> 0, size |-> 0, mem |-> @.mem]]
    /\ thr' = [thr EXCEPT ![t].pc = "done", ![t].ret = thr[t].dup]
    /\ UNCHANGED <<call, build>>

\* the program builds one string, then its threads run a_new_dup on it and
\* a_new_size, their steps interleaved
NextThreads ==
    \/ NewLen(FirstCall, CStrings)
    \/ \E t \in Threads : DupSize(t)
    \/ \E t \in Threads : DupAlloc(t)
    \/ \E t \in Threads : DupCopyHeader(t)
    \/ \E t \in Threads : DupCopyBuffer(t)
    \/ \E t \in Threads : SizeAlloc(t)
    \/ \E t \in Threads : SizeInit(t)

SpecThreads == InitCodec /\ [][NextThreads]_vars

\* values of a char: signed or unsigned
Chars == (-128)..255

\* the offset a walk of string h stands at, and the steps it took
WalkAt(h) == IF call.op = "a_next_chr" /\ call.h = h THEN call.n ELSE 0
WalkSteps(h) == IF call.op = "a_next_chr" /\ call.h = h THEN call.steps ELSE 0

\* p = a_next_chr(p) on the buffer of a string, from its first byte until
\* the byte at p is the terminator
NextChr ==
    /\ Running
    /\ \E h \in 1..Len(heap) :
          /\ "size" \in DOMAIN heap[h].hdr
          /\ WalkAt(h) < Len(heap[h].buf)
          /\ heap[h].buf[WalkAt(h) + 1] # 0
          /\ call' = [NoCall EXCEPT
                         !.op = "a_next_chr", !.h = h,
                         !.n = a_next_chr(heap[h].buf, WalkAt(h) + 1) - 1,
                         !.idx = a_next_chr_index(heap[h].buf, WalkAt(h) + 1),
                         !.steps = WalkSteps(h) + 1]
    /\ UNCHANGED <<heap, build, thr>>

\* A_ASSERT_CODEPOINT_BOUNDARY(str[k]) at an offset k of a string, the
\* terminator included
CheckBoundary ==
    /\ Running
    /\ \E h \in 1..Len(heap), signed \in BOOLEAN :
          /\ "size" \in DOMAIN heap[h].hdr
          /\ \E k \in 0..heap[h].hdr.size :
                /\ k < Len(heap[h].buf)
                /\ call' = [NoCall EXCEPT
                      !.op = "A_ASSERT_CODEPOINT_BOUNDARY", !.h = h, !.n = k,
                      !.out = IF Aborts(A_ASSERT_CODEPOINT_BOUNDARY(
                                           PlainChar(heap[h].buf[k + 1], signed)))
                              THEN "assert" ELSE "ret"]
    /\ UNCHANGED <<heap, build, thr>>

\* a_size_chr(c) on a char
SizeChr ==
    /\ FirstCall
    /\ \E c \in Chars :
          call' = [NoCall EXCEPT !.op = "a_size_chr", !.cp = c,
                                 !.idx = a_size_chr_index(c), !.n = a_size_chr(c)]
    /\ UNCHANGED <<heap, build, thr>>

\* a_size_chr_cstr(s) on a C string: a_size_chr((unsigned char)*s)
SizeChrCstr ==
    /\ FirstCall
    /\ \E s \in ShortCStrings, signed \in BOOLEAN :
          call' = [NoCall EXCEPT
                     !.op = "a_size_chr_cstr", !.s = s,
                     !.cp = PlainChar(ByteAt(s, 1), signed),
                     !.idx = a_size_chr_index(PlainChar(ByteAt(s, 1), signed) % 256),
                     !.n = a_size_chr_cstr(s)]
    /\ UNCHANGED <<heap, build, thr>>

\* one string is built, then walked, probed and measured
NextWalk ==
    \/ New(FirstCall, ShortCStrings)
    \/ NewLen(FirstCall, ShortCStrings)
    \/ NextChr
    \/ CheckBoundary
    \/ SizeChr
    \/ SizeChrCstr

SpecWalk == InitCodec /\ [][NextWalk]_vars

(* ------------------------------ properties ---------------------------- *)
Handles == 1..Len(heap)

\* the last call handed a string to its caller
Returned(ops) == call.op \in ops /\ call.out = "ret" /\ call.ret # NULL

\* the string the last call returned
Res == heap[call.ret]

\* the byte_length bytes before the terminator
Content(x) == SubSeq(x.buf, 1, x.hdr.size)

\* code points of a valid UTF-8 sequence: its bytes other than continuations
CodePoints(bs) == Cardinality({i \in 1..Len(bs) : ~IsCont(bs[i])})

IsPow2(n) == \E k \in 0..SizeBits : n = Pow2(k)

Builders == {"a_new", "a_new_len", "a_new_size", "a_new_cp", "a_new_chr", "a_new_dup"}

\* C1: the capacity recorded in the header of every string equals the number
\* of buffer bytes allocated for it, duplicates included.
C1_MemIsAllocated == \A h \in Handles : heap[h].hdr.mem = heap[h].alloc

\* C2: when a_new(s) returns a string for a valid UTF-8 s, its buffer holds
\* the bytes of s and the terminator, its byte length is strlen(s) and its
\* code-point length is the number of code points of s.
C2_NewCopies ==
    (Returned({"a_new"}) /\ ValidUtf8(call.s)) =>
        /\ Res.buf = call.s \o <<0>>
        /\ Res.hdr.size = strlen(call.s)
        /\ Res.hdr.len = CodePoints(call.s)

\* a_new returned "Caf\'e": 5 bytes, 4 code points
C2_Witness ==
    Returned({"a_new"}) /\ call.s = Cafe /\ Res.hdr.size = 5 /\ Res.hdr.len = 4

\* C3: for valid UTF-8 s and l on a code-point boundary of s, a_new_len(s, l)
\* has byte length l and a code-point length equal to the number of code
\* points in its own first l bytes.
C3_NewLenLengthsAgree ==
    (/\ Returned({"a_new_len"})
     /\ ValidUtf8(call.s)
     /\ ValidUtf8(SubSeq(call.s, 1, call.n))) =>
        /\ Res.hdr.size = call.n
        /\ Res.hdr.len = CodePoints(Content(Res))

\* C4: every string returned by a constructor other than the raw one has
\* byte_length < capacity, recorded and allocated, and a zero byte at offset
\* byte_length.
C4_Terminated ==
    Returned(Builders) =>
        /\ Res.hdr.size < Res.hdr.mem
        /\ Res.hdr.size < Res.alloc
        /\ Len(Res.buf) > Res.hdr.size
        /\ Res.buf[Res.hdr.size + 1] = 0

\* a duplicate of a non-empty string was returned
C4_Witness == Returned({"a_new_dup"}) /\ Res.hdr.size > 0

\* C5: the capacity recorded by every constructor is a power of two and at
\* least A_MIN_STR_SIZE.
C5_PowerOfTwo ==
    \A h \in Handles : IsPow2(heap[h].hdr.mem) /\ heap[h].hdr.mem >= A_MIN_STR_SIZE

\* a string that outgrew the minimum buffer, and a duplicate
C5_Witness ==
    /\ Returned({"a_new_dup"})
    /\ \E h \in 1..Len(heap) :
          /\ "size" \in DOMAIN heap[h].hdr
          /\ heap[h].hdr.size = A_MIN_STR_SIZE - 1
          /\ heap[h].hdr.mem = 2 * A_MIN_STR_SIZE

\* C6: a call the allocator gives no storage returns NULL, writes through no
\* pointer, and leaves every string and the set of allocations as they were.
C6_OutOfMemory ==
    [][call'.oom => (call'.out = "ret" /\ call'.ret = NULL /\ heap' = heap)]_vars

\* a_new_dup ran out of memory with its source alive
C6_Witness == call.oom /\ call.op = "a_new_dup" /\ Len(heap) > 0

\* C7: with assertions on, a_new_cp aborts on every code point outside
\* [0, 0x10FFFF] or inside the surrogate range.
C7_BadCodePointAborts ==
    (~ndebug /\ call.op = "a_new_cp" /\ ~call.oom /\ ~IsScalar(call.cp)) =>
        call.out = "assert"

\* the argument is not valid UTF-8: the string of a_new, the string a_new_len
\* copies whole, the code point a_new_chr is pointed at
InvalidArg ==
    \/ call.op = "a_new" /\ ~ValidUtf8(call.s)
    \/ /\ call.op = "a_new_len"
       /\ call.s # CNULL
       /\ call.n = strlen(call.s)
       /\ ~ValidUtf8(call.s)
    \/ call.op = "a_new_chr" /\ SeqLenAt(call.s, 1) = 0

\* C8: with assertions on, a_new, a_new_len and a_new_chr abort on every
\* argument that is not valid UTF-8 instead of returning a string.
C8_InvalidUtf8Aborts == (~ndebug /\ ~call.oom /\ InvalidArg) => call.out = "assert"

\* C9: with assertions on, a_new does not abort on valid UTF-8.
C9_ValidPassesAssertion ==
    (~ndebug /\ call.op = "a_new" /\ ValidUtf8(call.s)) => call.out # "assert"

\* C10: for valid UTF-8 s and 0 <= l <= strlen(s), the byte_length bytes of
\* a_new_len(s, l) are valid UTF-8.
C10_NewLenValid ==
    (Returned({"a_new_len"}) /\ ValidUtf8(call.s)) => ValidUtf8(Content(Res))

\* the code point a well-formed UTF-8 sequence of one code point stands for
Decode(e) ==
    CASE Len(e) = 1 -> e[1]
      [] Len(e) = 2 -> (e[1] - 192) * 64 + (e[2] - 128)
      [] Len(e) = 3 -> (e[1] - 224) * 4096 + (e[2] - 128) * 64 + (e[3] - 128)
      [] OTHER -> (e[1] - 240) * 262144 + (e[2] - 128) * 4096
                  + (e[3] - 128) * 64 + (e[4] - 128)

\* e is the shortest-form UTF-8 encoding of cp
EncodesAs(e, cp) == Len(e) > 0 /\ SeqLenAt(e, 1) = Len(e) /\ Decode(e) = cp

\* the string returned holds repeat copies of e and the terminator
HoldsCopies(e, repeat) ==
    /\ Res.buf = Repeated(e, repeat) \o <<0>>
    /\ Res.hdr.len = repeat
    /\ Res.hdr.size = repeat * Len(e)

\* C11: for a non-zero scalar cp and a repeat whose byte count does not wrap,
\* the string a_new_cp(cp, repeat) returns holds exactly repeat copies of the
\* shortest-form encoding of cp, with len = repeat and size = repeat * encoded
\* length; a_new_chr(chr, repeat) does the same with the code point at chr,
\* copying only the bytes its leading byte announces; repeat = 0 gives the
\* empty string.
C11_RepeatedCodePoint ==
    /\ (/\ Returned({"a_new_cp"})
        /\ IsScalar(call.cp) /\ call.cp # 0
        /\ call.n * Len(Utf8Bytes(call.cp)) + 2 < SizeMod) =>
            /\ EncodesAs(Utf8Bytes(call.cp), call.cp)
            /\ HoldsCopies(Utf8Bytes(call.cp), call.n)
    /\ (/\ Returned({"a_new_chr"})
        /\ SeqLenAt(call.s, 1) > 0
        /\ call.n * SeqLenAt(call.s, 1) + 2 < SizeMod) =>
            /\ a_size_chr_cstr(call.s) = SeqLenAt(call.s, 1)
            /\ HoldsCopies(SubSeq(call.s, 1, SeqLenAt(call.s, 1)), call.n)

\* a_new_chr returned two copies of U+00E9 from a chr with more bytes behind it
C11_Witness ==
    /\ Returned({"a_new_chr"})
    /\ call.s = <<195, 169, 65>>
    /\ call.n = 2
    /\ Res.buf = <<195, 169, 195, 169, 0>>
    /\ Res.hdr.len = 2 /\ Res.hdr.size = 4

\* C12: a_new_dup(s) of a string s with a written header returns a string
\* with the byte length and the code-point length of s and the same buffer
\* bytes up to and including the terminator, and leaves the header and the
\* buffer of s, and of every other string, as they were.
C12_DupCopies ==
    [][(call'.op = "a_new_dup" /\ call'.out = "ret" /\ call'.ret # NULL) =>
        /\ \A h \in 1..Len(heap) : heap'[h] = heap[h]
        /\ heap'[call'.ret].hdr.size = heap[call'.h].hdr.size
        /\ heap'[call'.ret].hdr.len = heap[call'.h].hdr.len
        /\ Len(heap'[call'.ret].buf) = heap[call'.h].hdr.size + 1
        /\ heap'[call'.ret].buf =
               SubSeq(heap[call'.h].buf, 1, heap[call'.h].hdr.size + 1)
        /\ heap'[call'.ret].buf[heap[call'.h].hdr.size + 1] = 0]_vars

\* a duplicate of the 2-byte string U+00E9 stands beside its source
C12_Witness ==
    /\ Returned({"a_new_dup"})
    /\ call.h # call.ret
    /\ heap[call.h].buf = <<195, 169, 0>>
    /\ Res.buf = <<195, 169, 0>>
    /\ Res.hdr.len = 1 /\ Res.hdr.size = 2

\* first and last address of the block the allocator gave for string h
Block(h) == <<heap[h].at, heap[h].at + sizeof_a_header + heap[h].alloc - 1>>

\* first and last address string h occupies: its header and, once its byte
\* length is written, its bytes and its terminator
Used(h) ==
    <<a_header(heap[h].str),
      IF "size" \in DOMAIN heap[h].hdr
      THEN heap[h].str + heap[h].hdr.size
      ELSE heap[h].str - 1>>

\* address ranges: a inside b, a and b without a common address
Inside(a, b) == b[1] <= a[1] /\ a[2] <= b[2]
Apart(a, b) == a[2] < b[1] \/ b[2] < a[1]

\* C13: the handle a constructor returns is one no live string has; the
\* header, bytes and terminator of every string lie in its own allocation
\* and no two allocations overlap, so no two live strings share a byte; in
\* particular the duplicate a_new_dup(s) returns is not s and shares no byte
\* with s.
C13_OwnsStorage ==
    /\ \A h \in Handles : Used(h)[1] <= Used(h)[2] /\ Inside(Used(h), Block(h))
    /\ \A h1, h2 \in Handles :
          h1 # h2 => /\ heap[h1].str # heap[h2].str
                     /\ Apart(Block(h1), Block(h2))
                     /\ Apart(Used(h1), Used(h2))
    /\ Returned({"a_new_dup"}) =>
          /\ call.ret # call.h
          /\ heap[call.ret].str # heap[call.h].str
          /\ Apart(Used(call.ret), Used(call.h))

\* a duplicate of a duplicate: three live strings, the last one a copy of
\* the second
C13_Witness ==
    /\ Returned({"a_new_dup"})
    /\ Len(heap) = 3
    /\ call.h = 2 /\ call.ret = 3
    /\ heap[3].hdr.size > 0

\* a_new_len was given a null pointer, or a_new_dup a null handle
NullCall ==
    \/ call.op = "a_new_len" /\ call.s = CNULL
    \/ call.op = "a_new_dup" /\ call.h = NULL

\* C14 as stated: with NULL passthrough enabled, a_new_len(NULL, l) and
\* a_new_dup(NULL) return NULL without aborting and without calling the
\* allocator, with assertions compiled in as well as with NDEBUG.
C14_PassthroughEveryBuild ==
    (passthrough /\ NullCall) => (call.out = "ret" /\ call.ret = NULL /\ ~call.oom)

\* C14 amended: with NULL passthrough enabled and NDEBUG defined,
\* a_new_len(NULL, l) and a_new_dup(NULL) return NULL with the allocator not
\* called and no string touched; with assertions compiled in,
\* assert(s != NULL) stands before the passthrough test and the call aborts.
C14_PassthroughNeedsNdebug ==
    [][(passthrough /\ NullCall') =>
        /\ heap' = heap
        /\ ~call'.oom
        /\ ndebug => (call'.out = "ret" /\ call'.ret = NULL)
        /\ ~ndebug => call'.out = "assert"]_vars

\* in an NDEBUG build with passthrough, a_new_dup(NULL) returned NULL while a
\* string was alive
C14_Witness ==
    /\ passthrough /\ ndebug
    /\ call.op = "a_new_dup" /\ call.h = NULL /\ ~call.oom
    /\ call.out = "ret" /\ call.ret = NULL
    /\ Len(heap) > 0

\* C15: in every build, a_new(NULL) the allocator serves returns a new empty
\* string: not NULL, byte length 0, code-point length 0, the terminator at
\* offset 0.
C15_NewNullIsEmpty ==
    (call.op = "a_new" /\ call.s = CNULL /\ ~call.oom) =>
        /\ Returned({"a_new"})
        /\ Res.hdr.size = 0
        /\ Res.hdr.len = 0
        /\ Res.buf = <<0>>

\* a repeat constructor was given the zero code point
ZeroCall ==
    /\ ~call.oom
    /\ \/ call.op = "a_new_cp" /\ call.cp = 0
       \/ call.op = "a_new_chr" /\ ByteAt(call.s, 1) = 0

\* C16: with assertions on, a_new_cp(0, repeat) and a_new_chr(chr, repeat)
\* with chr[0] = 0 abort for every repeat, 0 included, and no string a
\* constructor returns holds a zero byte before its terminator.
C16_NoEmbeddedZero ==
    ~ndebug =>
        /\ ZeroCall => call.out = "assert"
        /\ Returned(Builders) => \A i \in 1..Res.hdr.size : Res.buf[i] # 0

\* C17: for l with l + 1 <= SIZE_MAX, the string a_new_size(l) returns is
\* empty (byte length 0, code-point length 0, terminator at offset 0) and
\* has a capacity, recorded and allocated, of at least l + 1.
C17_NewSizeEmpty ==
    (Returned({"a_new_size"}) /\ call.n + 1 <= SIZE_MAX) =>
        /\ Res.hdr.size = 0
        /\ Res.hdr.len = 0
        /\ Len(Res.buf) >= 1 /\ Res.buf[1] = 0
        /\ Res.hdr.mem >= call.n + 1
        /\ Res.alloc >= call.n + 1

\* a_new_size(A_MIN_STR_SIZE) returned an empty string in the doubled buffer
C17_Witness ==
    /\ Returned({"a_new_size"})
    /\ call.n = A_MIN_STR_SIZE
    /\ Res.hdr.size = 0
    /\ Res.hdr.mem = 2 * A_MIN_STR_SIZE

\* C18: the string a_new_size_raw returns has its capacity field written and
\* nothing else: no buffer byte, not even a terminator, and neither the
\* byte-length nor the code-point-length field.
C18_RawUntouched ==
    Returned({"a_new_size_raw"}) =>
        /\ DOMAIN Res.hdr = {"mem"}
        /\ Res.buf = <<>>

\* a_new_size_raw(0) returned the minimum buffer
C18_Witness ==
    /\ Returned({"a_new_size_raw"})
    /\ call.n = 0
    /\ Res.hdr = [mem |-> A_MIN_STR_SIZE]
    /\ Res.alloc = A_MIN_STR_SIZE

\* C19: the a_str of every string a constructor returned is the address
\* sizeof (struct a_header) bytes after the start of its allocation, where
\* its buffer begins; a_header and a_buff undo each other on these
\* addresses, so the header reached through the a_str is the one the
\* constructor wrote at the start of the allocation.
C19_HandleAfterHeader ==
    \A h \in Handles :
        /\ heap[h].str = heap[h].at + sizeof_a_header
        /\ a_header(heap[h].str) = heap[h].at
        /\ a_buff(a_header(heap[h].str)) = heap[h].str
        /\ a_header(a_buff(heap[h].at)) = heap[h].at

\* a second string, allocated behind the first: its a_str lies one header
\* behind its block
C19_Witness ==
    /\ Len(heap) = 2
    /\ heap[2].at > heap[1].str
    /\ heap[2].str = heap[2].at + 3 * sizeof_size_t

\* C20: for l with l + 1 <= SIZE_MAX, the capacity recorded by a returning
\* a_new_size_raw(l) or a_new_size(l) is the least power of two that is at
\* least max(A_MIN_STR_SIZE, l + 1).
C20_LeastPowerOfTwo ==
    (Returned({"a_new_size_raw", "a_new_size"}) /\ call.n + 1 <= SIZE_MAX) =>
        LET need == IF call.n + 1 > A_MIN_STR_SIZE THEN call.n + 1 ELSE A_MIN_STR_SIZE
        IN  /\ IsPow2(Res.hdr.mem)
            /\ Res.hdr.mem >= need
            /\ \A k \in 0..SizeBits : Pow2(k) >= need => Res.hdr.mem <= Pow2(k)

\* a_new_size_raw(A_MIN_STR_SIZE - 1) fits the minimum buffer exactly
C20_Witness ==
    /\ Returned({"a_new_size_raw"})
    /\ call.n = A_MIN_STR_SIZE - 1
    /\ Res.hdr.mem = A_MIN_STR_SIZE

\* C21: the capacity recorded for a string built from content (a_new,
\* a_new_len, a_new_cp, a_new_chr) is the least power of two that is at
\* least max(A_MIN_STR_SIZE, byte_length + 1).
C21_ContentLeastPowerOfTwo ==
    Returned({"a_new", "a_new_len", "a_new_cp", "a_new_chr"}) =>
        LET need == IF Res.hdr.size + 1 > A_MIN_STR_SIZE
                    THEN Res.hdr.size + 1 ELSE A_MIN_STR_SIZE
        IN  /\ IsPow2(Res.hdr.mem)
            /\ Res.hdr.mem >= need
            /\ \A k \in 0..SizeBits : Pow2(k) >= need => Res.hdr.mem <= Pow2(k)

\* offsets (from 0) at which the code points of a valid UTF-8 sequence
\* start, as the validator parses it from byte i
RECURSIVE StartsFrom(_, _)
StartsFrom(s, i) ==
    IF i > Len(s) \/ SeqLenAt(s, i) = 0 THEN {}
    ELSE {i - 1} \cup StartsFrom(s, i + SeqLenAt(s, i))

\* code-point start offsets of the bytes of string x
Starts(x) == StartsFrom(Content(x), 1)

\* C22: with assertions on, for a string whose bytes are valid UTF-8 and an
\* offset k in [0, byte_length], A_ASSERT_CODEPOINT_BOUNDARY passes on the
\* byte at k exactly when k starts a code point or k = byte_length.
C22_BoundaryExact ==
    (/\ ~ndebug
     /\ call.op = "A_ASSERT_CODEPOINT_BOUNDARY"
     /\ ValidUtf8(Content(heap[call.h]))) =>
        (call.out = "ret" <=>
            call.n \in Starts(heap[call.h]) \cup {heap[call.h].hdr.size})

\* the check aborted on the second byte of U+00E9 inside "A\'eA"
C22_Witness ==
    /\ ~ndebug
    /\ call.op = "A_ASSERT_CODEPOINT_BOUNDARY"
    /\ Content(heap[call.h]) = <<65, 195, 169>>
    /\ call.n = 2
    /\ call.out = "assert"

\* C23: on a string whose bytes are valid UTF-8, a walk that starts at
\* offset 0 and applies a_next_chr until it stands on the terminator
\* advances by 1..4 bytes a step, stands after j steps on the j-th
\* code-point start (counted from 0), never beyond byte_length, and stands
\* on the terminator at byte_length after as many steps as the string has
\* code points.
C23_WalkVisitsStarts ==
    (call.op = "a_next_chr" /\ ValidUtf8(Content(heap[call.h]))) =>
        /\ a_next_char_size(call.idx) \in 1..4
        /\ call.n <= heap[call.h].hdr.size
        /\ call.n \in Starts(heap[call.h]) \cup {heap[call.h].hdr.size}
        /\ call.steps = Cardinality({k \in Starts(heap[call.h]) : k < call.n})
        /\ call.n = heap[call.h].hdr.size =>
              call.steps = CodePoints(Content(heap[call.h]))

\* the walk of "Caf\'e" stands on the terminator at offset 5 after 4 steps
C23_Witness ==
    /\ call.op = "a_next_chr"
    /\ Content(heap[call.h]) = Cafe
    /\ call.n = 5
    /\ call.steps = 4
    /\ heap[call.h].buf[call.n + 1] = 0

\* C24: a_new_size_raw(l) comes to an end for every l of size_t: its
\* doubling loop never runs for ever.
C24_RawTerminates == call.op = "a_new_size_raw" => call.out # "hang"

\* C25: for every l of size_t, l = SIZE_MAX included, the capacity recorded
\* by a_new_size_raw(l) or a_new_size(l) that returns a string is at least
\* l + 1, computed without wrap-around.
C25_CapacityHoldsL ==
    Returned({"a_new_size_raw", "a_new_size"}) =>
        /\ Res.hdr.mem >= call.n + 1
        /\ Res.alloc >= call.n + 1

\* C26: for every l of size_t, the l bytes a_new_len(s, l) copies and the
\* terminator it writes at offset l lie inside the block allocated for the
\* result.
C26_NewLenInBounds ==
    (call.op = "a_new_len" /\ ~call.oom /\ call.ret # NULL) =>
        /\ Len(heap[call.ret].buf) <= heap[call.ret].alloc
        /\ call.n + 1 <= heap[call.ret].alloc

\* C27: every string a_new_cp returns for a non-zero scalar, or a_new_chr for
\* a valid code point, has codepoint_length <= byte_length <=
\* 4 * codepoint_length, for every repeat of size_t.
C27_LengthsBracket ==
    (\/ Returned({"a_new_cp"}) /\ IsScalar(call.cp) /\ call.cp # 0
     \/ Returned({"a_new_chr"}) /\ SeqLenAt(call.s, 1) > 0) =>
        /\ Res.hdr.len <= Res.hdr.size
        /\ Res.hdr.size <= 4 * Res.hdr.len

\* C28: for every A_MIN_STR_SIZE >= 0 the library is compiled with, zero and
\* values that are no powers of two included, a_new_size_raw(l) on a request
\* that fits half of size_t comes to an end, and the capacity it records is
\* a power of two and at least A_MIN_STR_SIZE.
C28_AnyMinimum ==
    (call.op = "a_new_size_raw" /\ ~call.oom /\ call.n + 1 <= SizeMod \div 2) =>
        /\ call.out = "ret"
        /\ call.ret # NULL
        /\ IsPow2(Res.hdr.mem)
        /\ Res.hdr.mem >= min_size

\* C30: the index a_next_chr, a_size_chr and a_size_chr_cstr use into the
\* 256-entry table a_next_char_size is in 0..255 for every byte, bytes from
\* 0x80 held in a signed char included, and is the value of that byte.
C30_TableIndexInRange ==
    /\ call.op \in {"a_next_chr", "a_size_chr", "a_size_chr_cstr"} =>
          call.idx \in 0..255
    /\ call.op = "a_size_chr" =>
          call.idx = (IF call.cp < 0 THEN call.cp + 256 ELSE call.cp)
    /\ call.op = "a_size_chr_cstr" => call.idx = ByteAt(call.s, 1)

\* a_size_chr of the lead byte C3 held in a signed char: entry 195, length 2
C30_Witness ==
    /\ call.op = "a_size_chr"
    /\ call.cp = 195 - 256
    /\ call.idx = 195
    /\ call.n = 2

\* what a call of thread t returns when it runs alone on the shared string
\* as it is after the step: the header, bytes and allocated size of its result
Alone(t) ==
    LET r == IF thr'[t].op = "a_new_dup"
             THEN a_new_dup(<<heap'[Shared]>>, 1, TRUE)
             ELSE a_new_size(<<heap'[Shared]>>, thr'[t].l, TRUE)
    IN  r.heap[r.ret]

\* C29: under every interleaving of the steps of threads that run a_new_dup
\* on the same string and a_new_size, with an atomic allocator, no step
\* changes the shared string, and a call that has returned a string has
\* returned the one it returns when it runs alone: the same header, the
\* same bytes, the same allocated size, in a block of its own.
C29_ThreadsAsAlone ==
    [][/\ Len(heap) >= Shared => heap'[Shared] = heap[Shared]
       /\ \A t \in Threads :
             (thr'[t].pc = "done" /\ ~thr'[t].oom) =>
                /\ thr'[t].ret # NULL /\ thr'[t].ret # Shared
                /\ \A u \in Threads \ {t} : thr'[u].dup # thr'[t].ret
                /\ heap'[thr'[t].ret].hdr = Alone(t).hdr
                /\ heap'[thr'[t].ret].buf = Alone(t).buf
                /\ heap'[thr'[t].ret].alloc = Alone(t).alloc]_vars

\* two threads have duplicated the 2-byte shared string, the second to
\* allocate being the first to return
C29_Witness ==
    /\ Len(heap) = 3
    /\ heap[Shared].buf = <<195, 169, 0>>
    /\ thr[1].pc = "done" /\ thr[1].op = "a_new_dup" /\ thr[1].ret = 3
    /\ thr[2].pc = "buffer" /\ thr[2].op = "a_new_dup" /\ thr[2].dup = 2
    /\ heap[3].buf = <<195, 169, 0>>

====
